---- MODULE Spec2Model ----
(***************************************************************************)
(* Model of the econ_data_dashboard repository.                            *)
(*                                                                         *)
(*   data_fetcher.py   main(): fetch each FRED series, save it when the    *)
(*                     fetch returned data.                                *)
(*   dashboard_app.py  load_and_process_data(), memoized by                *)
(*                     @st.cache_data: load the two CSV files, compute the *)
(*                     12-row percentage change of the price series, inner *)
(*                     join on DATE, derive the real wage, drop every row  *)
(*                     holding a missing cell.                             *)
(*                                                                         *)
(* Numbers are exact rationals <<n, d>> with d > 0.  <<0, 0>> is NaN (a    *)
(* missing cell), <<1, 0>> / <<-1, 0>> are the infinities and <<0, -1>> is *)
(* a cell of an object (text) column.  Floating-point rounding of the      *)
(* division and multiplication is not modelled.  Dates are month numbers.  *)
(***************************************************************************)
EXTENDS Integers, Sequences, FiniteSets, TLC

\* ---- bounds of the model ------------------------------------------------
\* last month of the longest stored series (months 1..MaxDate)
MaxDate == 13
\* a series may lack one month h in 1..MaxHole (h = 1: it starts a month late)
MaxHole == 2
\* a series may hold one empty cell, at a month in 1..MaxNan or at its last month
MaxNan == 2
\* length of the short series
ShortLen == 2

\* ---- program constants --------------------------------------------------
\* pct_change(periods=12)
Periods == 12
\* start_date='1990-01-01' of the fetchers: month 1 of the model
StartDate == 1

\* ---- values -------------------------------------------------------------
NaN == <<0, 0>>
Str == <<0, -1>>
One == <<1, 1>>
Hundred == <<100, 1>>

Num(n) == <<n, 1>>
IsNaN(x) == x[2] = 0 /\ x[1] = 0
IsInf(x) == x[2] = 0 /\ x[1] # 0
IsZero(x) == x[2] > 0 /\ x[1] = 0
Sign(n) == IF n > 0 THEN 1 ELSE IF n < 0 THEN -1 ELSE 0

\* float equality: NaN equals nothing, rationals compare by value
EqVal(x, y) ==
    /\ ~IsNaN(x) /\ ~IsNaN(y)
    /\ x[1] * y[2] = y[1] * x[2]
    /\ (x[2] = 0) = (y[2] = 0)

\* x / y of two float cells
Div(x, y) ==
    IF IsNaN(x) \/ IsNaN(y) THEN NaN
    ELSE IF IsInf(x) THEN (IF IsInf(y) THEN NaN
                           ELSE <<x[1] * (IF y[1] < 0 THEN -1 ELSE 1), 0>>)
    ELSE IF IsInf(y) THEN <<0, 1>>
    ELSE IF y[1] = 0 THEN (IF x[1] = 0 THEN NaN ELSE <<Sign(x[1]), 0>>)
    ELSE <<x[1] * y[2] * Sign(y[1]), x[2] * y[1] * Sign(y[1])>>

\* x * y of two float cells
Mul(x, y) ==
    IF IsNaN(x) \/ IsNaN(y) THEN NaN
    ELSE IF IsInf(x) \/ IsInf(y)
         THEN (IF IsZero(x) \/ IsZero(y) THEN NaN
               ELSE <<Sign(x[1]) * Sign(y[1]), 0>>)
    ELSE <<x[1] * y[1], x[2] * y[2]>>

\* x - y of two float cells
Sub(x, y) ==
    IF IsNaN(x) \/ IsNaN(y) THEN NaN
    ELSE IF IsInf(x) THEN (IF IsInf(y) /\ x[1] = y[1] THEN NaN ELSE x)
    ELSE IF IsInf(y) THEN <<-y[1], 0>>
    ELSE <<x[1] * y[2] - y[1] * x[2], x[2] * y[2]>>

\* ---- optional values (None / a data frame) ------------------------------
None == <<>>
Some(x) == <<x>>
IsNone(o) == o = <<>>
Get(o) == o[1]

\* ---- stored files -------------------------------------------------------
\* A file of the data folder: absent, or unreadable as a CSV with a DATE
\* column, or a CSV with the value columns `header`; `text` says the values
\* are not numbers (FRED writes "." for a missing observation).
AbsentFile ==
    [exists |-> FALSE, readable |-> FALSE, header |-> {}, text |-> FALSE, rows |-> <<>>]
CorruptFile ==
    [exists |-> TRUE, readable |-> FALSE, header |-> {}, text |-> FALSE, rows |-> <<>>]
CsvFile(header, text, rows) ==
    [exists |-> TRUE, readable |-> TRUE, header |-> header, text |-> text, rows |-> rows]

\* ---- data frames --------------------------------------------------------
\* cols: the column names; obj: the columns of object dtype; rows: the rows
\* in index order, each a DATE and a cell per column.
EmptyFrame == [cols |-> {}, obj |-> {}, rows |-> <<>>]

Dates(df) == {df.rows[i].DATE : i \in 1..Len(df.rows)}
IsEmpty(df) == Len(df.rows) = 0

\* pd.read_csv(path, index_col='DATE', parse_dates=True) of a readable file
read_csv(f) ==
    [cols |-> f.header,
     obj  |-> IF f.text THEN f.header ELSE {},
     rows |-> [i \in 1..Len(f.rows) |->
                 [DATE |-> f.rows[i].DATE,
                  v    |-> [c \in f.header |-> f.rows[i].val]]]]

\* df.columns = [name]: raises unless the frame has exactly one column
CanSetColumns(df) == Cardinality(df.cols) = 1
SetColumns(df, name) ==
    LET old == CHOOSE c \in df.cols : TRUE
    IN [cols |-> {name},
        obj  |-> IF df.obj = {} THEN {} ELSE {name},
        rows |-> [i \in 1..Len(df.rows) |->
                    [DATE |-> df.rows[i].DATE,
                     v    |-> [c \in {name} |-> df.rows[i].v[old]]]]]

\* df[col] as a sequence of cells
Column(df, col) == [i \in 1..Len(df.rows) |-> df.rows[i].v[col]]

\* Series.ffill(): an empty cell takes the last non-empty cell before it
RECURSIVE FillAt(_, _)
FillAt(s, i) ==
    IF i = 0 THEN NaN
    ELSE IF ~IsNaN(s[i]) THEN s[i]
    ELSE FillAt(s, i - 1)
ffill(s) == [i \in 1..Len(s) |-> FillAt(s, i)]

\* pct_change shifting by periods - 1 rows (an off-by-one lag)
pct_change_short(s, periods, pad) ==
    LET data == IF pad THEN ffill(s) ELSE s
    IN [i \in 1..Len(s) |->
          IF i <= periods - 1 THEN NaN
          ELSE Sub(Div(data[i], data[i - periods + 1]), One)]

\* Series.pct_change(periods): data / data.shift(periods) - 1, where data is
\* the series forward-filled when the installed pandas still pads by default
pct_change(s, periods, pad) ==
    LET data == IF pad THEN ffill(s) ELSE s
    IN [i \in 1..Len(s) |->
          IF i <= periods THEN NaN
          ELSE Sub(Div(data[i], data[i - periods]), One)]

\* df[name] = cells
WithColumn(df, name, cells) ==
    [cols |-> df.cols \cup {name},
     obj  |-> df.obj \ {name},
     rows |-> [i \in 1..Len(df.rows) |->
                 [DATE |-> df.rows[i].DATE,
                  v    |-> [c \in df.cols \cup {name} |->
                              IF c = name THEN cells[i] ELSE df.rows[i].v[c]]]]]

\* the row of df with the given date (dates are unique)
RowAt(df, d) == df.rows[CHOOSE i \in 1..Len(df.rows) : df.rows[i].DATE = d]

\* the names pd.merge gives the columns: one that both frames have gets the
\* suffix _x on the left and _y on the right
LeftName(c, right) == IF c \in right.cols THEN c \o "_x" ELSE c
RightName(c, left) == IF c \in left.cols THEN c \o "_y" ELSE c

\* the merge with how='left': every left row is kept; the cells of a date the
\* right frame lacks are empty
merge_left(left, right) ==
    LET lcols == {LeftName(c, right) : c \in left.cols}
        rcols == {RightName(c, left) : c \in right.cols}
    IN [cols |-> lcols \cup rcols,
        obj  |-> {LeftName(c, right) : c \in left.obj}
                    \cup {RightName(c, left) : c \in right.obj},
        rows |-> [i \in 1..Len(left.rows) |->
                    [DATE |-> left.rows[i].DATE,
                     v    |-> [n \in lcols \cup rcols |->
                                 IF n \in lcols
                                 THEN left.rows[i].v[CHOOSE c \in left.cols :
                                                        LeftName(c, right) = n]
                                 ELSE IF left.rows[i].DATE \notin Dates(right)
                                 THEN NaN
                                 ELSE RowAt(right, left.rows[i].DATE).v[
                                          CHOOSE c \in right.cols :
                                              RightName(c, left) = n]]]]]

\* pd.merge(left, right, left_index=True, right_index=True, how='inner'):
\* the left rows whose date the right frame holds, in the left order, with the
\* cells of both.
merge(left, right) ==
    LET kept == SelectSeq(left.rows, LAMBDA r : r.DATE \in Dates(right))
        lcols == {LeftName(c, right) : c \in left.cols}
        rcols == {RightName(c, left) : c \in right.cols}
    IN [cols |-> lcols \cup rcols,
        obj  |-> {LeftName(c, right) : c \in left.obj}
                    \cup {RightName(c, left) : c \in right.obj},
        rows |-> [i \in 1..Len(kept) |->
                    [DATE |-> kept[i].DATE,
                     v    |-> [n \in lcols \cup rcols |->
                                 IF n \in lcols
                                 THEN kept[i].v[CHOOSE c \in left.cols :
                                                   LeftName(c, right) = n]
                                 ELSE RowAt(right, kept[i].DATE).v[
                                          CHOOSE c \in right.cols :
                                              RightName(c, left) = n]]]]]

\* dropna with how='all': a row goes only when all its cells in cols are empty
dropna_all(df, cols) ==
    [df EXCEPT !.rows = SelectSeq(df.rows, LAMBDA r : \E c \in cols : ~IsNaN(r.v[c]))]

\* df.dropna(subset=cols): the rows with no empty cell in the columns cols
dropna(df, cols) ==
    [df EXCEPT !.rows = SelectSeq(df.rows, LAMBDA r : \A c \in cols : ~IsNaN(r.v[c]))]

\* ---- dashboard_app.py: load_and_process_data ----------------------------
\* The "Load CPI data" block: cpi_df after it, and the st.* message it shows.
\* cpi_df is bound by read_csv before the renaming and the percentage change
\* run, so an exception in either leaves the frame read so far in cpi_df.
LoadCPI(f, pad) ==
    IF ~f.exists THEN [df |-> None, msg |-> "cpi_not_found"]
    ELSE IF ~f.readable THEN [df |-> None, msg |-> "cpi_error"]
    ELSE LET raw == read_csv(f)
         IN IF ~CanSetColumns(raw) THEN [df |-> Some(raw), msg |-> "cpi_error"]
            ELSE LET named == SetColumns(raw, "CPI")
                 IN IF "CPI" \in named.obj
                    THEN [df |-> Some(named), msg |-> "cpi_error"]
                    ELSE [df |-> Some(WithColumn(named, "Inflation Rate (%)",
                                    [i \in 1..Len(named.rows) |->
                                       Mul(pct_change(Column(named, "CPI"),
                                                      Periods, pad)[i],
                                           Hundred)])),
                          msg |-> "cpi_success"]

\* The "Load Wage data" block: wage_df after it, and the message it shows.
LoadWage(f) ==
    IF ~f.exists THEN [df |-> None, msg |-> "wage_not_found"]
    ELSE IF ~f.readable THEN [df |-> None, msg |-> "wage_error"]
    ELSE LET raw == read_csv(f)
         IN IF ~CanSetColumns(raw) THEN [df |-> Some(raw), msg |-> "wage_error"]
            ELSE [df |-> Some(SetColumns(raw, "Wage")), msg |-> "wage_success"]

\* the base taken from the last clean row instead of the first
BaseCPI_last(clean) == clean.rows[Len(clean.rows)].v["CPI"]

\* merged_df_clean['CPI'].iloc[0]
BaseCPI(clean) == clean.rows[1].v["CPI"]

\* the real wages with the base read from the first row of merged_df itself,
\* not of the cleaned copy
RealWages_dirty(merged) ==
    IF "CPI" \in merged.cols /\ "Wage" \in merged.cols
    THEN LET clean == dropna(merged, {"CPI", "Wage"})
         IN IF ~IsEmpty(clean)
            THEN IF merged.obj \cap {"CPI", "Wage"} # {}
                 THEN [raised |-> TRUE, df |-> merged, msg |-> "none"]
                 ELSE [raised |-> FALSE,
                       df |-> WithColumn(merged, "Real Wage (Adjusted)",
                                [i \in 1..Len(merged.rows) |->
                                   Mul(Div(merged.rows[i].v["Wage"],
                                           merged.rows[i].v["CPI"]),
                                       merged.rows[1].v["CPI"])]),
                       msg |-> "real_wage_success"]
            ELSE [raised |-> FALSE, df |-> merged, msg |-> "not_enough_clean"]
    ELSE [raised |-> FALSE, df |-> merged, msg |-> "missing_columns"]

\* The "Calculate Real Wages" block on a non-empty merged_df.
\* raised: merged_df['Wage'] / merged_df['CPI'] met a text column.
RealWages(merged) ==
    IF "CPI" \in merged.cols /\ "Wage" \in merged.cols
    THEN LET clean == dropna(merged, {"CPI", "Wage"})
         IN IF ~IsEmpty(clean)
            THEN IF merged.obj \cap {"CPI", "Wage"} # {}
                 THEN [raised |-> TRUE, df |-> merged, msg |-> "none"]
                 ELSE [raised |-> FALSE,
                       df |-> WithColumn(merged, "Real Wage (Adjusted)",
                                [i \in 1..Len(merged.rows) |->
                                   Mul(Div(merged.rows[i].v["Wage"],
                                           merged.rows[i].v["CPI"]),
                                       BaseCPI(clean))]),
                       msg |-> "real_wage_success"]
            ELSE [raised |-> FALSE, df |-> merged, msg |-> "not_enough_clean"]
    ELSE [raised |-> FALSE, df |-> merged, msg |-> "missing_columns"]

\* One execution of the body of load_and_process_data on the two files.
\* cpi_df, wage_df, merged_df: the locals when the body ends; value: what it
\* returns; raised: it ended in an exception instead; msgs: the st.* calls.
load_and_process_data(cf, wf, pad) ==
    LET c == LoadCPI(cf, pad)
        w == LoadWage(wf)
        base == [cpi_df |-> c.df, wage_df |-> w.df]
    IN IF ~IsNone(c.df) /\ ~IsNone(w.df)
       THEN LET joined == merge(Get(c.df), Get(w.df))
                rw == IF IsEmpty(joined)
                      THEN [raised |-> FALSE, df |-> joined,
                            msg |-> "missing_columns"]
                      ELSE RealWages(joined)
            IN base @@ [merged_df |-> rw.df,
                        raised |-> rw.raised,
                        value |-> IF rw.raised THEN EmptyFrame
                                  ELSE dropna(rw.df, rw.df.cols),
                        msgs |-> {c.msg, w.msg} \cup
                                 (IF rw.raised THEN {} ELSE {rw.msg})]
       ELSE base @@ [merged_df |-> EmptyFrame,
                     raised |-> FALSE,
                     value |-> EmptyFrame,
                     msgs |-> {c.msg, w.msg, IF IsNone(c.df) /\ IsNone(w.df)
                                             THEN "no_data" ELSE "only_one"}]

\* ---- data_fetcher.py ----------------------------------------------------
\* What the FRED download answers: a failure of the request, or a CSV.
\* fetch_*_data: read it, name the value column, keep the rows from
\* start_date on; None when anything raised.
fetch_data(resp, name) ==
    IF ~resp.readable THEN None
    ELSE LET raw == read_csv(resp)
         IN IF ~CanSetColumns(raw) THEN None
            ELSE LET named == SetColumns(raw, name)
                 IN Some([named EXCEPT !.rows =
                            SelectSeq(named.rows, LAMBDA r : r.DATE >= StartDate)])

\* df.to_csv(path): the file holding the frame's single value column
to_csv(df) ==
    LET col == CHOOSE c \in df.cols : TRUE
    IN CsvFile({col}, df.obj # {},
               [i \in 1..Len(df.rows) |->
                  [DATE |-> df.rows[i].DATE, val |-> df.rows[i].v[col]]])

\* ---- the series the files and the downloads may hold --------------------
\* price index of month d: 100, 101, ... (profile 1) or flat 100 (profile 2)
CpiVal(p, d) == IF p = 1 THEN Num(99 + d) ELSE Num(100)
\* nominal wage of month d: flat 20 (profile 1), or 0 in the last month
WageVal(p, d) == IF p = 2 /\ d = MaxDate THEN Num(0) ELSE Num(20)

\* the value of month d in the series named name
ValueOf(name, p, d) == IF name = "CPI" THEN CpiVal(p, d) ELSE WageVal(p, d)

\* months first..last without the month hole, with an empty cell at month nan
SeriesRows(name, first, last, hole, nan, p) ==
    LET all == [i \in 1..(last - first + 1) |->
                  [DATE |-> first + i - 1,
                   val  |-> IF first + i - 1 = nan THEN NaN
                            ELSE ValueOf(name, p, first + i - 1)]]
    IN SelectSeq(all, LAMBDA r : r.DATE # hole)

\* the same rows with every non-empty cell a text cell
AsText(rows) ==
    [i \in 1..Len(rows) |->
       [DATE |-> rows[i].DATE, val |-> IF IsNaN(rows[i].val) THEN NaN ELSE Str]]

\* <<hole, nan, last, profile>>: the full series and its one-defect variants
Variants ==
    {<<0, 0, MaxDate, 1>>, <<0, 0, MaxDate, 2>>, <<0, 0, ShortLen, 1>>}
    \cup {<<h, 0, MaxDate, 1>> : h \in 1..MaxHole}
    \cup {<<0, n, MaxDate, 1>> : n \in (1..MaxNan) \cup {MaxDate}}

\* what the data folder may hold for a series when the programs start
StoredFiles(name) ==
    {AbsentFile, CorruptFile,
     CsvFile({name, "NOTE"}, FALSE, SeriesRows(name, 1, MaxDate, 0, 0, 1)),
     CsvFile({name}, TRUE, AsText(SeriesRows(name, 1, MaxDate, 0, 0, 1)))}
    \cup {CsvFile({name}, FALSE, SeriesRows(name, 1, v[3], v[1], v[2], v[4])) :
            v \in Variants}

\* what a download may answer: a failed request, a CSV with a second value
\* column, or the series from the month before start_date on
Responses(name) ==
    {CorruptFile,
     CsvFile({"VALUE", "NOTE"}, FALSE, SeriesRows(name, 0, MaxDate, -1, -1, 1)),
     CsvFile({"VALUE"}, FALSE, SeriesRows(name, 0, MaxDate, -1, -1, 1))}

\* ---- state --------------------------------------------------------------
VARIABLES
    cpi_file,    \* data/cpi_data.csv
    wage_file,   \* data/wage_data.csv
    fill_pad,    \* the installed pandas pads in pct_change by default
    mpc,         \* data_fetcher.main: "idle", "cpi", "wage", "done"
    m_cpi_df,    \* main's cpi_df
    m_wage_df,   \* main's wage_df
    cache,       \* the st.cache_data entry of load_and_process_data, or None
    run,         \* the last execution of the body, or None
    df,          \* the dashboard's df of the last script run, or None
    app          \* the last script run: "none", "miss", "hit", "raised"

vars == <<cpi_file, wage_file, fill_pad, mpc, m_cpi_df, m_wage_df,
          cache, run, df, app>>
fetcher_vars == <<mpc, m_cpi_df, m_wage_df>>
app_vars == <<cache, run, df, app>>
files == <<cpi_file, wage_file>>

Init ==
    /\ cpi_file \in StoredFiles("CPI")
    /\ wage_file \in StoredFiles("Wage")
    /\ fill_pad \in BOOLEAN
    /\ mpc = "idle"
    /\ m_cpi_df = None
    /\ m_wage_df = None
    /\ cache = None
    /\ run = None
    /\ df = None
    /\ app = "none"

\* ---- data_fetcher.py: main ----------------------------------------------
\* python data_fetcher.py is started
MainStart ==
    /\ mpc \in {"idle", "done"}
    /\ mpc' = "cpi"
    /\ m_cpi_df' = None
    /\ m_wage_df' = None
    /\ UNCHANGED <<files, fill_pad, app_vars>>

\* main writing an empty file over the stored one when the price fetch failed
MainCPI_truncate ==
    /\ mpc = "cpi"
    /\ \E resp \in Responses("CPI") :
         LET got == fetch_data(resp, "CPI")
         IN /\ m_cpi_df' = got
            /\ cpi_file' = IF IsNone(got) THEN CorruptFile ELSE to_csv(Get(got))
    /\ mpc' = "wage"
    /\ UNCHANGED <<wage_file, m_wage_df, fill_pad, app_vars>>

\* cpi_df = fetch_cpi_data(); saved when it is not None
MainCPI ==
    /\ mpc = "cpi"
    /\ \E resp \in Responses("CPI") :
         LET got == fetch_data(resp, "CPI")
         IN /\ m_cpi_df' = got
            /\ cpi_file' = IF IsNone(got) THEN cpi_file ELSE to_csv(Get(got))
    /\ mpc' = "wage"
    /\ UNCHANGED <<wage_file, m_wage_df, fill_pad, app_vars>>

\* wage_df = fetch_wage_data(); saved when it is not None
MainWage ==
    /\ mpc = "wage"
    /\ \E resp \in Responses("Wage") :
         LET got == fetch_data(resp, "Wage")
         IN /\ m_wage_df' = got
            /\ wage_file' = IF IsNone(got) THEN wage_file ELSE to_csv(Get(got))
    /\ mpc' = "done"
    /\ UNCHANGED <<cpi_file, m_cpi_df, fill_pad, app_vars>>

\* ---- dashboard_app.py: a script run --------------------------------------
\* df = load_and_process_data() with no cache entry: the body runs; what it
\* returns is stored with the messages it showed; an exception stores nothing
\* and ends the script run before df is bound
CacheMiss ==
    /\ IsNone(cache)
    /\ LET r == load_and_process_data(cpi_file, wage_file, fill_pad)
       IN /\ run' = Some(r)
          /\ IF r.raised
             THEN /\ app' = "raised"
                  /\ df' = None
                  /\ UNCHANGED cache
             ELSE /\ app' = "miss"
                  /\ cache' = Some([value |-> r.value, msgs |-> r.msgs])
                  /\ df' = Some(r.value)
    /\ UNCHANGED <<files, fill_pad, fetcher_vars>>

\* a script run that executes the body again although the cache holds an entry
CacheHit_rerun ==
    /\ ~IsNone(cache)
    /\ LET r == load_and_process_data(cpi_file, wage_file, fill_pad)
       IN /\ run' = Some(r)
          /\ IF r.raised
             THEN /\ app' = "raised"
                  /\ df' = None
                  /\ UNCHANGED cache
             ELSE /\ app' = "miss"
                  /\ cache' = Some([value |-> r.value, msgs |-> r.msgs])
                  /\ df' = Some(r.value)
    /\ UNCHANGED <<files, fill_pad, fetcher_vars>>

\* df = load_and_process_data() with a cache entry: the stored table is
\* returned and the body does not run
CacheHit ==
    /\ ~IsNone(cache)
    /\ df' = Some(Get(cache).value)
    /\ app' = "hit"
    /\ UNCHANGED <<cache, run, files, fill_pad, fetcher_vars>>

\* "Clear cache" of the Streamlit menu, or a restart of the server
ClearCache ==
    /\ ~IsNone(cache)
    /\ cache' = None
    /\ UNCHANGED <<run, df, app, files, fill_pad, fetcher_vars>>

Next ==
    \/ MainStart
    \/ MainCPI
    \/ MainWage
    \/ CacheMiss
    \/ CacheHit
    \/ ClearCache

Spec == Init /\ [][Next]_vars

\* ---- properties ----------------------------------------------------------
INFL == "Inflation Rate (%)"
REAL == "Real Wage (Adjusted)"

Ran == ~IsNone(run)
R == Get(run)
Returned == Ran /\ ~R.raised
FullSuccess == {"cpi_success", "wage_success"} \subseteq R.msgs
Joined == Ran /\ ~IsNone(R.cpi_df) /\ ~IsNone(R.wage_df)
Ascending(frame) ==
    \A i \in 1..Len(frame.rows) : \A j \in 1..Len(frame.rows) :
        i < j => frame.rows[i].DATE < frame.rows[j].DATE

\* x = (a / b - 1) * 100, by cross-multiplication
IsPctChange(x, a, b) ==
    /\ x[2] # 0
    /\ x[1] * a[2] * b[1] = 100 * x[2] * (a[1] * b[2] - b[1] * a[2])

\* x = (w / c) * b, by cross-multiplication
IsRealWage(x, w, c, b) ==
    /\ x[2] # 0
    /\ x[1] * w[2] * c[1] * b[2] = x[2] * w[1] * c[2] * b[1]

\* the inflation column of frame is the 12-row percentage change of its CPI
\* column: empty in rows 1..12, and (CPI[t] / CPI[t-12] - 1) * 100 in every
\* later row t whose two prices are present
LagByRowsOf(frame) ==
    \A t \in 1..Len(frame.rows) :
        LET x == frame.rows[t].v[INFL]
        IN /\ t <= Periods => IsNaN(x)
           /\ t > Periods
                 /\ ~IsNaN(frame.rows[t].v["CPI"])
                 /\ ~IsNaN(frame.rows[t - Periods].v["CPI"])
              => IsPctChange(x, frame.rows[t].v["CPI"],
                             frame.rows[t - Periods].v["CPI"])

\* C1 as claimed: in the joined table the inflation of row t is computed from
\* the price of row t and of the row 12 positions earlier in the joined table,
\* and is empty in the first 12 rows of the joined table.
C1_Orig ==
    Returned /\ INFL \in R.merged_df.cols => LagByRowsOf(R.merged_df)

\* C1 as amended: the inflation is computed on the price series as read from
\* its file, before the join: it is empty in the first 12 rows of that series,
\* it is (CPI[t] / CPI[t-12] - 1) * 100 over the rows of that series, and a
\* joined row carries the inflation cell of the price row of the same date.
C1_Thm ==
    Ran /\ ~IsNone(R.cpi_df) /\ INFL \in Get(R.cpi_df).cols =>
        /\ LagByRowsOf(Get(R.cpi_df))
        /\ Joined =>
             \A t \in 1..Len(R.merged_df.rows) :
                 R.merged_df.rows[t].v[INFL] =
                     RowAt(Get(R.cpi_df), R.merged_df.rows[t].DATE).v[INFL]

\* a run whose joined table has a defined inflation within its first 12 rows
C1_Wit ==
    /\ Returned /\ INFL \in R.merged_df.cols
    /\ \E t \in 1..Len(R.merged_df.rows) :
          t <= Periods /\ ~IsNaN(R.merged_df.rows[t].v[INFL])

\* C2 as claimed: unless both series loaded with full success, the run raises
\* nothing and returns an empty table.
C2_Claim ==
    Ran /\ ~FullSuccess => ~R.raised /\ IsEmpty(R.value)

\* C3 as claimed: a non-empty returned table has the four columns and no empty
\* cell.
C3_Claim ==
    ~IsNone(df) /\ ~IsEmpty(Get(df)) =>
        /\ {"CPI", "Wage", INFL, REAL} \subseteq Get(df).cols
        /\ \A i \in 1..Len(Get(df).rows) : \A c \in Get(df).cols :
               ~IsNaN(Get(df).rows[i].v[c])

\* C4: the join of two series with strictly increasing dates holds exactly the
\* dates of both, at most min(len) rows, in ascending order, each row with the
\* cells its date has in the two inputs.
C4_Thm ==
    Joined /\ Ascending(Get(R.cpi_df)) /\ Ascending(Get(R.wage_df)) =>
        LET a == Get(R.cpi_df)
            b == Get(R.wage_df)
            m == R.merged_df
        IN /\ Dates(m) = Dates(a) \cap Dates(b)
           /\ Len(m.rows) = Cardinality(Dates(m))
           /\ Len(m.rows) <= Len(a.rows) /\ Len(m.rows) <= Len(b.rows)
           /\ Ascending(m)
           /\ \A t \in 1..Len(m.rows) :
                 /\ \A c \in a.cols \ b.cols :
                       m.rows[t].v[c] = RowAt(a, m.rows[t].DATE).v[c]
                 /\ \A c \in b.cols \ a.cols :
                       m.rows[t].v[c] = RowAt(b, m.rows[t].DATE).v[c]

\* a join with rows left that dropped a date only one of the series holds
C4_Wit ==
    /\ Joined /\ ~IsEmpty(R.merged_df)
    /\ Dates(Get(R.cpi_df)) # Dates(Get(R.wage_df))

\* the joined rows with a price and a wage
BothPresent(m) ==
    {t \in 1..Len(m.rows) : ~IsNaN(m.rows[t].v["CPI"]) /\ ~IsNaN(m.rows[t].v["Wage"])}
\* the price of the earliest of them
BaseOf(m) ==
    m.rows[CHOOSE t \in BothPresent(m) : \A u \in BothPresent(m) : t <= u].v["CPI"]

C6_Claim ==
    ~IsNone(cache) => {"cpi_success", "wage_success"} \subseteq Get(cache).msgs

\* the dates of the first 12 rows of a frame
FirstDates(frame) ==
    {frame.rows[t].DATE : t \in {u \in 1..Len(frame.rows) : u <= Periods}}

C9_Thm ==
    [][~IsNone(cache) =>
          /\ cache' = cache \/ (cache' = None /\ UNCHANGED <<run, df, app>>)
          /\ run' = run
          /\ app' # app \/ df' # df =>
                app' = "hit" /\ df' = Some(Get(cache).value)]_vars

\* a script run answered from the cache with a table the files no longer give
C9_Wit ==
    /\ app = "hit" /\ ~IsNone(cache)
    /\ df = Some(Get(cache).value)
    /\ ~IsEmpty(Get(df))
    /\ load_and_process_data(cpi_file, wage_file, fill_pad).value # Get(df)

\* C10: in main each series is saved exactly when its own fetch returned data;
\* a failed fetch leaves that series' file as it was, the other series is
\* still fetched, and main goes on to completion; nothing else writes a file.
C10_Thm ==
    [][/\ mpc = "cpi" /\ mpc' # mpc =>
            /\ mpc' = "wage"
            /\ wage_file' = wage_file
            /\ cpi_file' = IF IsNone(m_cpi_df') THEN cpi_file
                           ELSE to_csv(Get(m_cpi_df'))
       /\ mpc = "wage" /\ mpc' # mpc =>
            /\ mpc' = "done"
            /\ cpi_file' = cpi_file
            /\ m_cpi_df' = m_cpi_df
            /\ wage_file' = IF IsNone(m_wage_df') THEN wage_file
                            ELSE to_csv(Get(m_wage_df'))
       /\ mpc \notin {"cpi", "wage"} => UNCHANGED files]_vars

\* main completed with the price fetch failed and the wage fetch saved, the
\* stored price file still there and not what main would have written
C10_Wit ==
    /\ mpc = "done"
    /\ IsNone(m_cpi_df) /\ ~IsNone(m_wage_df)
    /\ cpi_file.exists /\ cpi_file.readable /\ Len(cpi_file.rows) = ShortLen
    /\ wage_file = to_csv(Get(m_wage_df))

====
